---- MODULE Spec2Model ----
(***************************************************************************)
(* Model of the profiler's QueryRunner                                     *)
(* (ingestion/src/metadata/profiler/processor/runner.py) and of the        *)
(* BigQuery sampler (ingestion/src/metadata/sampler/sqlalchemy/bigquery/   *)
(* sampler.py).                                                            *)
(*                                                                         *)
(* A query is a record [from, stmt, where]: the object handed to           *)
(* select_from, the raw statement text behind it (for a user query) and    *)
(* the set of predicates of its filter chain.  Rows are the integers       *)
(* 1..nRows in cursor order.  Python's None is the string "None".          *)
(***************************************************************************)
EXTENDS Integers, Sequences, FiniteSets, TLC

VARIABLES
    profile_sample_query,   \* QueryRunner.profile_sample_query
    sample,                 \* kind of the object bound as QueryRunner._sample
    partition_details,      \* partition_details of the runner / of the sampler
    nRows,                  \* number of rows behind the sample handle
    callBudget,             \* how many times the caller invokes yield_from_sample
    last,                   \* the last materialized fetch the session ran
    gens,                   \* the generator objects yield_from_sample returned
    cursors,                \* the result cursors the session has opened
    sample_config,          \* BigQuerySampler.sample_config
    table_type,             \* BigQuerySampler.table_type
    column,                 \* the column the profiler asks the sampler about
    sampleOut               \* what the last get_sample_query call produced

vars == <<profile_sample_query, sample, partition_details, nRows, callBudget,
          last, gens, cursors, sample_config, table_type, column, sampleOut>>

runnerCfg == <<profile_sample_query, sample, partition_details, nRows, callBudget>>
samplerVars == <<sample_config, table_type, column, sampleOut>>

-----------------------------------------------------------------------------
(* Bounds and program constants *)

MaxRows == 3            \* rows behind the sample in the small scenarios
BigRows == 2500         \* rows of the large streaming scenario
PartUpper == 1          \* the partition keeps the rows with id <= PartUpper
MaxStreams == 2         \* interleaved invocations of yield_from_sample
MaxNameLen == 5         \* longest column name, in characters
BatchSize == 1000       \* result.fetchmany(1000)
FullPercent == 100      \* profile_sample or 100

None == "None"

Min(a, b) == IF a < b THEN a ELSE b

\* Python truthiness of an Optional[str]: None and "" are both falsy
Truthy(s) == s \notin {None, ""}

-----------------------------------------------------------------------------
(* QueryRunner: query construction *)

KwargSets == SUBSET {"query_filter_"}

get_query_filter_for_runner(kwargs) ==
    IF "query_filter_" \in kwargs THEN "kw" ELSE None

build_query == [from |-> None, stmt |-> None, where |-> {}]

select_from(q, target, stmt) == [q EXCEPT !.from = target, !.stmt = stmt]

Filter(q, p) == [q EXCEPT !.where = @ \cup {p}]

\* faulty variant: the sample path resolving the user query first
select_from_sample_custom(kwargs) ==
    LET filter_ == get_query_filter_for_runner(kwargs)
        query == IF Truthy(profile_sample_query)
                 THEN select_from(build_query, "user_query", profile_sample_query)
                 ELSE select_from(build_query, "sample", None)
    IN IF filter_ # None THEN Filter(query, filter_) ELSE query

select_from_sample(kwargs) ==
    LET filter_ == get_query_filter_for_runner(kwargs)
        query == select_from(build_query, "sample", None)
    IN IF filter_ # None THEN Filter(query, filter_) ELSE query

select_from_user_query(kwargs) ==
    LET filter_ == get_query_filter_for_runner(kwargs)
        query == select_from(build_query, "user_query", profile_sample_query)
    IN IF filter_ # None THEN Filter(query, filter_) ELSE query

select_from_table_raw(kwargs) ==
    LET filter_ == get_query_filter_for_runner(kwargs)
        query == select_from(build_query, "table", None)
    IN IF filter_ # None THEN Filter(query, filter_) ELSE query

\* faulty variant: the custom query is ignored on the table path
select_from_table_ignoring_custom(kwargs) == select_from_table_raw(kwargs)

\* body shared by select_first_from_table and select_all_from_table
select_from_table(kwargs) ==
    IF Truthy(profile_sample_query)
    THEN select_from_user_query(kwargs)
    ELSE select_from_table_raw(kwargs)

\* the decorator: with a partition bound, the predicate joins the filter chain
partition_filter_handler(q) ==
    IF partition_details # None THEN Filter(q, "partition") ELSE q

\* faulty variant: any bound handle routes to the sample path
dispatch_to_any_sample == IF sample # None THEN "sample" ELSE "table"

\* dispatch_query_select_first: isinstance(self._sample, AliasedClass)
dispatch_target == IF sample = "AliasedClass" THEN "sample" ELSE "table"

\* the query yield_from_sample hands to session.execute: the filtered copy
\* built for the partition is dropped and the query is built afresh
yield_from_sample_query(kwargs) ==
    LET query == select_from_sample(kwargs)
        dropped == IF partition_details # None
                   THEN Filter(query, "partition") ELSE query
    IN select_from_sample(kwargs)

-----------------------------------------------------------------------------
(* The session: evaluating a query, cursors *)

Satisfies(r, p) ==
    CASE p = "partition" -> r <= PartUpper
      [] p = "kw" -> r % 2 = 1
      [] OTHER -> TRUE

SourceRows == [i \in 1..nRows |-> i]

ResultRows(q) ==
    LET Keep(r) == \A p \in q.where : Satisfies(r, p)
    IN SelectSeq(SourceRows, Keep)

\* faulty variant: one cursor kept on the session and handed to every caller
session_execute_shared(cs, q) ==
    IF cs = <<>>
    THEN [cursors |-> <<[query |-> q, rows |-> ResultRows(q), pos |-> 0,
                         closed |-> FALSE]>>, result |-> 1]
    ELSE [cursors |-> cs, result |-> 1]

session_execute(cs, q) ==
    [cursors |-> Append(cs, [query |-> q, rows |-> ResultRows(q), pos |-> 0,
                             closed |-> FALSE]),
     result |-> Len(cs) + 1]

\* the cursor is released by the library once a fetch comes back empty
fetchmany(cur, size) ==
    LET rows == SubSeq(cur.rows, cur.pos + 1, Min(cur.pos + size, Len(cur.rows)))
    IN [rows |-> rows,
        cursor |-> [cur EXCEPT !.pos = @ + Len(rows),
                               !.closed = @ \/ rows = <<>>]]

-----------------------------------------------------------------------------
(* QueryRunner: the materialized fetches *)

NoFetch == [entry |-> None, op |-> None, query |-> build_query, card |-> None]

Fetch(entry, op, q, card) == [entry |-> entry, op |-> op, query |-> q, card |-> card]

select_first_from_table(kwargs) ==
    partition_filter_handler(select_from_table(kwargs))

select_all_from_table(kwargs) ==
    partition_filter_handler(select_from_table(kwargs))

select_first_from_sample(kwargs) ==
    partition_filter_handler(select_from_sample(kwargs))

select_all_from_sample(kwargs) ==
    partition_filter_handler(select_from_sample(kwargs))

SelectFirstFromTable ==
    \E kwargs \in KwargSets :
        /\ last' = Fetch("select_first_from_table", "select_first_from_table",
                         select_first_from_table(kwargs), "first")
        /\ UNCHANGED <<runnerCfg, gens, cursors, samplerVars>>

SelectAllFromTable ==
    \E kwargs \in KwargSets :
        /\ last' = Fetch("select_all_from_table", "select_all_from_table",
                         select_all_from_table(kwargs), "all")
        /\ UNCHANGED <<runnerCfg, gens, cursors, samplerVars>>

\* select_from(None) is rejected by the library before anything runs, so the
\* sample paths execute a query only when a handle is bound
SelectFirstFromSample ==
    \E kwargs \in KwargSets :
        /\ sample # None
        /\ last' = Fetch("select_first_from_sample", "select_first_from_sample",
                         select_first_from_sample(kwargs), "first")
        /\ UNCHANGED <<runnerCfg, gens, cursors, samplerVars>>

SelectAllFromSample ==
    \E kwargs \in KwargSets :
        /\ sample # None
        /\ last' = Fetch("select_all_from_sample", "select_all_from_sample",
                         select_all_from_sample(kwargs), "all")
        /\ UNCHANGED <<runnerCfg, gens, cursors, samplerVars>>

DispatchQuerySelectFirst ==
    \E kwargs \in KwargSets :
        /\ last' = IF dispatch_target = "sample"
                   THEN Fetch("dispatch_query_select_first", "select_first_from_sample",
                              select_first_from_sample(kwargs), "first")
                   ELSE Fetch("dispatch_query_select_first", "select_first_from_table",
                              select_first_from_table(kwargs), "first")
        /\ UNCHANGED <<runnerCfg, gens, cursors, samplerVars>>

-----------------------------------------------------------------------------
(* QueryRunner.yield_from_sample: a generator over a result cursor *)

NewGen(kwargs) ==
    [pc |-> "created", kwargs |-> kwargs, result |-> 0,
     rows |-> <<>>, out |-> <<>>, fetched |-> <<>>]

\* faulty variant: the loop stops at the first batch that is not full
LoopExitsOnShortBatch(rows) == Len(rows) < BatchSize

\* if not rows: break
LoopExits(rows) == rows = <<>>

\* one turn of `while True`: fetch a batch, stop on an empty one, else hand
\* its first row to the consumer and suspend at the yield
LoopTurn(cs, gen) ==
    LET f == fetchmany(cs[gen.result], BatchSize)
        cs2 == [cs EXCEPT ![gen.result] = f.cursor]
        g2 == [gen EXCEPT !.fetched = Append(@, Len(f.rows))]
    IN IF LoopExits(f.rows)
       THEN [cursors |-> cs2, gen |-> [g2 EXCEPT !.pc = "done", !.rows = <<>>]]
       ELSE [cursors |-> cs2,
             gen |-> [g2 EXCEPT !.pc = "suspended",
                                !.rows = Tail(f.rows),
                                !.out = Append(@, Head(f.rows))]]

\* next() on a generator: the first call runs the body up to the first yield
Advance(cs, gen) ==
    IF gen.pc = "created"
    THEN LET ex == session_execute(cs, yield_from_sample_query(gen.kwargs))
         IN LoopTurn(ex.cursors, [gen EXCEPT !.result = ex.result])
    ELSE IF gen.rows # <<>>
         THEN [cursors |-> cs,
               gen |-> [gen EXCEPT !.rows = Tail(@), !.out = Append(@, Head(gen.rows))]]
         ELSE LoopTurn(cs, gen)

YieldFromSample ==
    \E kwargs \in KwargSets :
        /\ sample # None
        /\ Len(gens) < callBudget
        /\ gens' = Append(gens, NewGen(kwargs))
        /\ UNCHANGED <<runnerCfg, last, cursors, samplerVars>>

GenNext ==
    \E g \in 1..Len(gens) :
        /\ gens[g].pc \in {"created", "suspended"}
        /\ LET r == Advance(cursors, gens[g])
           IN /\ gens' = [gens EXCEPT ![g] = r.gen]
              /\ cursors' = r.cursors
        /\ UNCHANGED <<runnerCfg, last, samplerVars>>

\* the consumer keeps calling next() until the batch in hand is used up
GenDrain ==
    \E g \in 1..Len(gens) :
        /\ gens[g].pc = "suspended"
        /\ gens[g].rows # <<>>
        /\ gens' = [gens EXCEPT ![g].out = @ \o gens[g].rows, ![g].rows = <<>>]
        /\ UNCHANGED <<runnerCfg, last, cursors, samplerVars>>

\* the consumer closes the generator or drops it: GeneratorExit is raised at
\* the yield; the body has no finally and no with around the result
GenClose ==
    \E g \in 1..Len(gens) :
        /\ gens[g].pc \in {"created", "suspended"}
        /\ gens' = [gens EXCEPT ![g].pc = "closed"]
        /\ UNCHANGED <<runnerCfg, last, cursors, samplerVars>>

\* an exception raised at the yield while the stream is being consumed
GenThrow ==
    \E g \in 1..Len(gens) :
        /\ gens[g].pc = "suspended"
        /\ gens' = [gens EXCEPT ![g].pc = "failed"]
        /\ UNCHANGED <<runnerCfg, last, cursors, samplerVars>>

-----------------------------------------------------------------------------
(* BigQuerySampler *)

Alphabet == {"a", "b", "."}

ColumnNames == UNION {[1..n -> Alphabet] : n \in 1..MaxNameLen}

\* `column is None`
NoColumn == [name |-> <<>>, type |-> None, parent |-> None]

TableColumn(name) == [name |-> name, type |-> "T", parent |-> "table"]

\* str.split("."): scan the name, closing a part at every separator
RECURSIVE SplitFrom(_, _, _)
SplitFrom(s, cur, parts) ==
    IF s = <<>> THEN Append(parts, cur)
    ELSE IF Head(s) = "." THEN SplitFrom(Tail(s), <<>>, Append(parts, cur))
    ELSE SplitFrom(Tail(s), Append(cur, Head(s)), parts)

Split(s) == SplitFrom(s, <<>>, <<>>)

\* Column(name, STRUCT) followed by col._set_parent(self.table.__table__)
StructColumn(name) == [name |-> name, type |-> "STRUCT", parent |-> "table"]

\* faulty variant: the innermost field is taken instead of the parent
flatten_column_last(col) ==
    IF col # NoColumn
    THEN LET column_parts == Split(col.name)
         IN IF Len(column_parts) > 1
            THEN StructColumn(column_parts[Len(column_parts)])
            ELSE col
    ELSE col

\* the column BigQuerySampler._base_sample_query hands to the base construction
flatten_column(col) ==
    IF col # NoColumn
    THEN LET column_parts == Split(col.name)
         IN IF Len(column_parts) > 1
            THEN StructColumn(column_parts[1])
            ELSE col
    ELSE col

\* the sampler's invariant on the requested magnitude
ValidMagnitude(cfg) ==
    /\ cfg.profile_sample > 0
    /\ cfg.profile_sample_type = "PERCENTAGE" => cfg.profile_sample <= FullPercent

NoFragment ==
    [op |-> None, arg |-> NoColumn, error |-> None, path |-> None,
     column |-> NoColumn, tablesample |-> FALSE, percent |-> 0, where |-> {}]

\* SQASampler._base_sample_query: the base construction over the given column
SQASampler_base_sample_query(col) ==
    [NoFragment EXCEPT !.path = "base", !.column = col]

base_sample_query(col) == SQASampler_base_sample_query(flatten_column(col))

\* SQASampler.get_sample_query: the generic sampling of the base strategy
SQASampler_get_sample_query(col) ==
    IF ~ValidMagnitude(sample_config)
    THEN [NoFragment EXCEPT !.error = "ConfigurationError"]
    ELSE [base_sample_query(col) EXCEPT !.path = "generic"]

\* self.sample_config.profile_sample or 100
profile_sample_or_default ==
    IF sample_config.profile_sample = 0 THEN FullPercent ELSE sample_config.profile_sample

\* faulty variant: system sampling also applied to views
get_sample_query_body_on_views(col) ==
    IF sample_config.profile_sample_type = "PERCENTAGE"
    THEN [base_sample_query(col) EXCEPT !.path = "system",
                                        !.tablesample = TRUE,
                                        !.percent = profile_sample_or_default]
    ELSE SQASampler_get_sample_query(col)

get_sample_query_body(col) ==
    IF /\ sample_config.profile_sample_type = "PERCENTAGE"
       /\ table_type # "View"
    THEN [base_sample_query(col) EXCEPT !.path = "system",
                                        !.tablesample = TRUE,
                                        !.percent = profile_sample_or_default]
    ELSE SQASampler_get_sample_query(col)

get_sample_query(col) ==
    LET r == get_sample_query_body(col)
    IN IF r.error # None THEN r ELSE partition_filter_handler(r)

Columns == {NoColumn} \cup {TableColumn(n) : n \in ColumnNames}

GetSampleQuery ==
    /\ sampleOut' = [get_sample_query(column) EXCEPT !.op = "get_sample_query",
                                                     !.arg = column]
    /\ UNCHANGED <<runnerCfg, last, gens, cursors, sample_config, table_type, column>>

BaseSampleQuery ==
    /\ sampleOut' = [base_sample_query(column) EXCEPT !.op = "_base_sample_query",
                                                      !.arg = column]
    /\ UNCHANGED <<runnerCfg, last, gens, cursors, sample_config, table_type, column>>

SampleTypes == {"PERCENTAGE", "ROWS"}
Magnitudes == {-1, 0, 1, 50, FullPercent, FullPercent + 1}
TableTypes == {"Regular", "View", "MaterializedView"}

NoSampler ==
    /\ sample_config = [profile_sample_type |-> "PERCENTAGE", profile_sample |-> FullPercent]
    /\ table_type = "Regular"
    /\ column = NoColumn
    /\ sampleOut = NoFragment

InitSampler ==
    /\ profile_sample_query = None
    /\ sample = None
    /\ partition_details \in {None, "id <= PartUpper"}
    /\ nRows = 0
    /\ callBudget = 0
    /\ last = NoFetch
    /\ gens = <<>>
    /\ cursors = <<>>
    /\ sample_config \in [profile_sample_type : SampleTypes, profile_sample : Magnitudes]
    /\ table_type \in TableTypes
    /\ column \in Columns
    /\ sampleOut = NoFragment

NextSampler ==
    \/ GetSampleQuery
    \/ BaseSampleQuery

SpecSampler == InitSampler /\ [][NextSampler]_vars

-----------------------------------------------------------------------------
(* Specifications of the runner *)

SampleKinds == {"DeclarativeMeta", "AliasedClass"}
QueryTexts == {None, "", "SELECT * FROM t WHERE x"}
PartitionSpecs == {None, "id <= PartUpper"}

Init ==
    /\ profile_sample_query \in QueryTexts
    /\ sample \in SampleKinds \cup {None}
    /\ partition_details \in PartitionSpecs
    /\ nRows \in 0..MaxRows
    /\ callBudget = 1
    /\ last = NoFetch
    /\ gens = <<>>
    /\ cursors = <<>>
    /\ NoSampler

Next ==
    \/ SelectFirstFromTable
    \/ SelectAllFromTable
    \/ SelectFirstFromSample
    \/ SelectAllFromSample
    \/ DispatchQuerySelectFirst
    \/ YieldFromSample
    \/ GenNext
    \/ GenDrain
    \/ GenClose
    \/ GenThrow

Spec == Init /\ [][Next]_vars

\* one stream over result sets around the batch size
BatchRowCounts == {0, 1, BatchSize, BatchSize + 1, BigRows}

InitBatch ==
    /\ profile_sample_query = None
    /\ sample \in SampleKinds
    /\ partition_details \in PartitionSpecs
    /\ nRows \in BatchRowCounts
    /\ callBudget = 1
    /\ last = NoFetch
    /\ gens = <<>>
    /\ cursors = <<>>
    /\ NoSampler

NextStream ==
    \/ YieldFromSample
    \/ GenNext
    \/ GenDrain
    \/ GenClose
    \/ GenThrow

SpecBatch == InitBatch /\ [][NextStream]_vars

\* several streams of one runner consumed in any interleaving
InitPair ==
    /\ profile_sample_query = None
    /\ sample \in SampleKinds
    /\ partition_details \in PartitionSpecs
    /\ nRows \in 0..MaxRows
    /\ callBudget = MaxStreams
    /\ last = NoFetch
    /\ gens = <<>>
    /\ cursors = <<>>
    /\ NoSampler

SpecPair == InitPair /\ [][NextStream]_vars

-----------------------------------------------------------------------------
(* Properties *)

TablePaths == {"select_first_from_table", "select_all_from_table"}
SamplePaths == {"select_first_from_sample", "select_all_from_sample"}
Finished == {"done", "closed", "failed"}
Chars(s) == {s[i] : i \in 1..Len(s)}

C2_StreamAppliesPartition ==
    partition_details # None =>
        \A g \in 1..Len(gens) :
            /\ gens[g].result # 0 =>
                   "partition" \in cursors[gens[g].result].query.where
            /\ \A i \in 1..Len(gens[g].out) : Satisfies(gens[g].out[i], "partition")

C4_StreamYieldsAllInBatches ==
    \A g \in 1..Len(gens) :
        gens[g].result # 0 =>
            LET rows == cursors[gens[g].result].rows
                N == Len(rows)
                out == gens[g].out
                fetched == gens[g].fetched
                n == Len(fetched)
            IN /\ Len(out) <= N
               /\ out = SubSeq(rows, 1, Len(out))
               /\ \A i \in 1..n :
                      LET left == N - (i - 1) * BatchSize
                      IN fetched[i] = IF left <= 0 THEN 0 ELSE Min(BatchSize, left)
               /\ \A i \in 1..(n - 1) : fetched[i] > 0
               /\ gens[g].pc = "done" <=> (n > 0 /\ fetched[n] = 0)
               /\ gens[g].pc = "done" => out = rows

C4_Witness ==
    /\ Len(gens) = 1
    /\ gens[1].pc = "done"
    /\ Len(gens[1].out) = BigRows
    /\ gens[1].fetched = <<BatchSize, BatchSize, BigRows - 2 * BatchSize, 0>>

\* C5: once a stream is over (exhausted, closed or dropped by its consumer,
\* or ended by an exception), the cursor it opened is closed.
C5_CursorReleasedOnEveryExit ==
    \A g \in 1..Len(gens) :
        (gens[g].pc \in Finished /\ gens[g].result # 0) =>
            cursors[gens[g].result].closed

\* C6: dispatch_query_select_first runs select_first_from_sample exactly
\* when the bound sample handle is an AliasedClass and select_first_from_table
\* otherwise, whether or not a custom query string is set; with an aliased
\* handle and no custom query the query selects from the sample.
C6_DispatchByHandleKind ==
    last.entry = "dispatch_query_select_first" =>
        /\ last.op = "select_first_from_sample" <=> sample = "AliasedClass"
        /\ last.op = "select_first_from_table" <=> sample # "AliasedClass"
        /\ last.card = "first"
        /\ (sample = "AliasedClass" /\ ~Truthy(profile_sample_query)) =>
               last.query.from = "sample"

C6_Witness ==
    /\ last.entry = "dispatch_query_select_first"
    /\ sample = "AliasedClass"
    /\ ~Truthy(profile_sample_query)
    /\ last.op = "select_first_from_sample"
    /\ last.query.from = "sample"

\* C7: with an invalid sample magnitude (profile_sample <= 0, or a
\* percentage above 100) get_sample_query ends in ConfigurationError and
\* builds no sampling clause.
C7_InvalidMagnitudeFails ==
    (sampleOut.op = "get_sample_query" /\ ~ValidMagnitude(sample_config)) =>
        /\ sampleOut.error = "ConfigurationError"
        /\ ~sampleOut.tablesample

C9_ParentFieldIsSampled ==
    (sampleOut.op # None /\ sampleOut.error = None) =>
        LET arg == sampleOut.arg
            got == sampleOut.column
            k == Len(got.name)
        IN IF arg # NoColumn /\ "." \in Chars(arg.name)
           THEN /\ got.parent = "table"
                /\ "." \notin Chars(got.name)
                /\ k < Len(arg.name)
                /\ got.name = SubSeq(arg.name, 1, k)
                /\ arg.name[k + 1] = "."
           ELSE got = arg

C9_Witness ==
    /\ sampleOut.op = "_base_sample_query"
    /\ sampleOut.arg.name = <<"a", ".", "b", ".", "b">>
    /\ sampleOut.column.name = <<"a">>
    /\ sampleOut.column.parent = "table"

\* C10: every started stream reads a cursor of its own: no two streams share
\* one, a cursor's position is what its own stream has fetched, each stream
\* has yielded a prefix of the result of its own query, and an exhausted
\* stream has yielded all of it, however the streams are interleaved.
C10_StreamsAreIndependent ==
    \A g \in 1..Len(gens) :
        gens[g].result # 0 =>
            LET cur == cursors[gens[g].result]
                own == ResultRows(select_from_sample(gens[g].kwargs))
                out == gens[g].out
            IN /\ \A h \in 1..Len(gens) : h # g => gens[h].result # gens[g].result
               /\ cur.pos = Len(out) + Len(gens[g].rows)
               /\ Len(out) <= Len(own)
               /\ out = SubSeq(own, 1, Len(out))
               /\ gens[g].pc = "done" => out = own

C10_Witness ==
    /\ Len(gens) = 2
    /\ gens[1].pc = "suspended"
    /\ Len(gens[1].out) = 1
    /\ gens[2].pc = "done"
    /\ Len(gens[2].out) = MaxRows
    /\ Len(gens[1].rows) = MaxRows - 1
    /\ gens[1].result # gens[2].result

====
